---- MODULE Spec2Model ----
(***************************************************************************)
(* Retail Insights Assistant: the in-memory data store                     *)
(* (retail_insights/data_access.py), the three agents                      *)
(* (retail_insights/agents.py), the orchestrator                           *)
(* (retail_insights/orchestration.py) and the session's chat history       *)
(* (app.py).                                                               *)
(*                                                                         *)
(* Text is modelled as sequences.  File names and column names are         *)
(* sequences of one-character strings.  A model reply is a sequence of     *)
(* lexical units: every character that matters to fence stripping and to   *)
(* JSON structure (backtick, newline, space, braces, brackets, colon,      *)
(* comma) is a unit of its own, and a JSON string literal, a number or a   *)
(* bare word is one unit.                                                  *)
(***************************************************************************)
EXTENDS Naturals, Sequences, FiniteSets, TLC

VARIABLES
    conn,               \* RetailDataStore.conn: "none" or "open"
    tables,             \* the connection's registered tables: name -> DataFrame
    last_load,          \* history: the DataFrame of the last successful load_file
    chat_history,       \* st.session_state.chat_history
    pc,                 \* position of the synchronous caller
    question,           \* run_qa: question
    profile,            \* run_qa: profile
    l2q_raw,            \* LanguageToQueryAgent.run: raw
    l2q_raw_json,       \* LanguageToQueryAgent.run: raw_json
    l2q_output,         \* run_qa: l2q_output
    sql,                \* run_qa: sql
    data_output,        \* run_qa: data_output
    val_raw,            \* ValidationAgent.run: raw
    val_raw_json,       \* ValidationAgent.run: raw_json
    validation_output,  \* run_qa: validation_output
    debug,              \* run_qa: debug["steps"]
    calls,              \* history: the external calls of the current turn, in order
    aggregates,         \* run_summarization: aggregates
    ret,                \* outcome of the last finished operation
    resp                \* a model reply handed directly to the two agents

turnVars == <<question, profile, l2q_raw, l2q_raw_json, l2q_output, sql,
              data_output, val_raw, val_raw_json, validation_output, debug, calls>>
vars == <<conn, tables, last_load, chat_history, pc, question, profile, l2q_raw,
          l2q_raw_json, l2q_output, sql, data_output, val_raw, val_raw_json,
          validation_output, debug, calls, aggregates, ret, resp>>

(***************************************************************************)
(* Bounds of the model.                                                    *)
(***************************************************************************)
MaxTurns == 2
MaxCols == 3
MaxChunks == 5

(***************************************************************************)
(* Text helpers: Python's str methods on sequences.                        *)
(***************************************************************************)
Tick == "tick"   \* the backtick character
NL == "\n"
SP == " "

Whitespace == {SP, NL}

Upper == <<"A", "B", "C", "D", "E", "F", "G", "H", "I", "J", "K", "L", "M",
           "N", "O", "P", "Q", "R", "S", "T", "U", "V", "W", "X", "Y", "Z">>
LowerOf == <<"a", "b", "c", "d", "e", "f", "g", "h", "i", "j", "k", "l", "m",
             "n", "o", "p", "q", "r", "s", "t", "u", "v", "w", "x", "y", "z">>

UpperSet == {Upper[i] : i \in 1..Len(Upper)}
LowerMap == [c \in UpperSet |-> LowerOf[CHOOSE i \in 1..Len(Upper) : Upper[i] = c]]

LowerChar(c) == IF c \in UpperSet THEN LowerMap[c] ELSE c

\* str.lower()
Lower(s) == [i \in 1..Len(s) |-> LowerChar(s[i])]

\* str.startswith(p)
StartsWith(s, p) == Len(s) >= Len(p) /\ SubSeq(s, 1, Len(p)) = p

\* str.endswith(p)
EndsWith(s, p) == Len(s) >= Len(p) /\ SubSeq(s, Len(s) - Len(p) + 1, Len(s)) = p

\* the positions at which p occurs in s
Occurrences(s, p) ==
    {i \in 1..(Len(s) + 1) : i + Len(p) - 1 <= Len(s) /\ SubSeq(s, i, i + Len(p) - 1) = p}

\* p in s
Contains(s, p) == Occurrences(s, p) # {}

Min(S) == CHOOSE x \in S : \A y \in S : x <= y
Max(S) == CHOOSE x \in S : \A y \in S : x >= y

\* str.strip(): leading and trailing whitespace removed
Strip(s) ==
    LET keep == {i \in 1..Len(s) : s[i] \notin Whitespace}
    IN  IF keep = {} THEN <<>> ELSE SubSeq(s, Min(keep), Max(keep))

\* str.lstrip(chars) for a set of characters
LStrip(s, chars) ==
    LET keep == {i \in 1..Len(s) : s[i] \notin chars}
    IN  IF keep = {} THEN <<>> ELSE SubSeq(s, Min(keep), Len(s))

\* str.split(sep, 1) for a one-character separator: one or two parts
Split1(s, sep) ==
    LET at == {i \in 1..Len(s) : s[i] = sep}
    IN  IF at = {} THEN <<s>>
        ELSE <<SubSeq(s, 1, Min(at) - 1), SubSeq(s, Min(at) + 1, Len(s))>>

\* str.rsplit(sep, 1)[0]: the text before the last occurrence of sep
RSplit1Head(s, sep) ==
    LET at == Occurrences(s, sep)
    IN  IF at = {} THEN s ELSE SubSeq(s, 1, Max(at) - 1)

(***************************************************************************)
(* Values.  A Python value is a record [k, v]: k its kind, v its content.  *)
(***************************************************************************)
NoneVal == [k |-> "none", v |-> ""]
StrVal(lit) == [k |-> "str", v |-> lit]        \* a str, named by its literal
TextVal(s) == [k |-> "text", v |-> s]          \* a str holding the text s
BoolVal(b) == [k |-> "bool", v |-> b]
DictVal(d) == [k |-> "dict", v |-> d]
ListVal(l) == [k |-> "list", v |-> l]
IntVal(n) == [k |-> "int", v |-> n]
NameVal(n) == [k |-> "name", v |-> n]          \* a column name
DfVal(df) == [k |-> "df", v |-> df]

EmptyDict == [x \in {} |-> NoneVal]
Put(d, key, val) == [x \in (DOMAIN d) \cup {key} |-> IF x = key THEN val ELSE d[x]]

(***************************************************************************)
(* The data store (data_access.py).                                        *)
(***************************************************************************)
table_name == "sales"

\* column names
Region == <<"R", "e", "g", "i", "o", "n">>
OrderDate == <<"O", "r", "d", "e", "r", " ", "D", "a", "t", "e">>
TotalSales == <<"T", "o", "t", "a", "l", " ", "S", "a", "l", "e", "s">>
Total == <<"T", "o", "t", "a", "l">>
Sales == <<"S", "a", "l", "e", "s">>
AMOUNT == <<"A", "M", "O", "U", "N", "T">>
Updated == <<"U", "p", "d", "a", "t", "e", "d">>
Qty == <<"Q", "t", "y">>

\* file names
DotCsv == <<".", "c", "s", "v">>
DotXlsx == <<".", "x", "l", "s", "x">>
DotXls == <<".", "x", "l", "s">>
DotJson == <<".", "j", "s", "o", "n">>
Uploaded == <<"u", "p", "l", "o", "a", "d", "e", "d">>

FileNames == {
    <<"d", "a", "t", "a", ".", "c", "s", "v">>,
    <<"D", "A", "T", "A", ".", "C", "S", "V">>,
    <<"r", "e", "p", "o", "r", "t", ".", "x", "l", "s", "x">>,
    <<"o", "l", "d", ".", "x", "l", "s">>,
    <<"r", "o", "w", "s", ".", "j", "s", "o", "n">>,
    <<"n", "o", "t", "e", "s", ".", "t", "x", "t">>,
    <<"c", "s", "v">>,
    <<"a", ".", "c", "s", "v", ".", "b", "a", "k">> }

\* DataFrames: ordered column names and rows (a row is named by a number)
DfA == [cols |-> <<Region, OrderDate, TotalSales>>, rows |-> <<1, 2>>]
DfB == [cols |-> <<Total, Sales>>, rows |-> <<3>>]
DfC == [cols |-> <<Region, Qty>>, rows |-> <<>>]
NoDf == [cols |-> <<>>, rows |-> <<>>]
DataFrames == {DfA, DfB, DfC}

\* An uploaded file object: whether it has a name attribute, the name, whether
\* the decoder chosen for it can parse its bytes, and the table it holds.
UploadedFiles ==
    {[named |-> TRUE, name |-> n, parses |-> p, df |-> d] :
        n \in FileNames, p \in BOOLEAN, d \in DataFrames}
    \cup {[named |-> FALSE, name |-> <<>>, parses |-> p, df |-> d] :
        p \in BOOLEAN, d \in DataFrames}

NoTables == [x \in {} |-> NoDf]

\* history of the store: no load_file has succeeded yet
NeverLoaded == [ok |-> FALSE, df |-> NoDf, replaced |-> FALSE]

\* getattr(uploaded_file, "name", "uploaded")
FileNameOf(f) == IF f.named THEN f.name ELSE Uploaded

\* The decoder load_file chooses for a lower-cased file name.
DispatchAnyAsCsv(name_lower) ==
    IF EndsWith(name_lower, DotXlsx) \/ EndsWith(name_lower, DotXls) THEN "excel"
    ELSE IF EndsWith(name_lower, DotJson) THEN "json"
    ELSE "csv"

Dispatch(name_lower) ==
    IF EndsWith(name_lower, DotCsv) THEN "csv"
    ELSE IF EndsWith(name_lower, DotXlsx) \/ EndsWith(name_lower, DotXls) THEN "excel"
    ELSE IF EndsWith(name_lower, DotJson) THEN "json"
    ELSE "unsupported"

\* conn.execute("SHOW TABLES"): the names registered on the connection
ShowTables(tabs) == DOMAIN tabs

\* conn.unregister(name)
Unregister(tabs, name) == [x \in (DOMAIN tabs) \ {name} |-> tabs[x]]

\* conn.register(name, df): the name now answers with df
Register(tabs, name, df) == [x \in (DOMAIN tabs) \cup {name} |-> IF x = name THEN df ELSE tabs[x]]

\* load_file, lines 47-49, with the first registration kept
RegisterLoadedKeepFirst(tabs, df) ==
    IF table_name \in ShowTables(tabs) THEN tabs ELSE Register(tabs, table_name, df)

\* load_file, lines 47-49: drop the table if it is there, then register df
RegisterLoaded(tabs, df) ==
    Register(IF table_name \in ShowTables(tabs) THEN Unregister(tabs, table_name) ELSE tabs,
             table_name, df)

(***************************************************************************)
(* Aggregates (data_access.py, get_aggregates_for_summary).                *)
(***************************************************************************)
AmountCandidates ==
    << <<"s", "a", "l", "e", "s">>,
       <<"a", "m", "o", "u", "n", "t">>,
       <<"r", "e", "v", "e", "n", "u", "e">>,
       <<"g", "m", "v">>,
       <<"t", "o", "t", "a", "l">> >>

DateWord == <<"d", "a", "t", "e">>
DateNames == { <<"o", "r", "d", "e", "r", "_", "d", "a", "t", "e">>,
               <<"i", "n", "v", "o", "i", "c", "e", "_", "d", "a", "t", "e">> }

\* line 89: original.lower() == candidate or candidate in original.lower()
AmountMatch(original, candidate) ==
    Lower(original) = candidate \/ Contains(Lower(original), candidate)

\* the column loop outermost: the first column that matches any candidate
AmountColumnByColumnOrder(cols) ==
    LET hits == {j \in 1..Len(cols) :
                    \E i \in 1..Len(AmountCandidates) : AmountMatch(cols[j], AmountCandidates[i])}
    IN  IF hits = {} THEN NoneVal ELSE NameVal(cols[Min(hits)])

\* lines 86-93 from candidate number i on: the candidate loop outermost, the
\* column loop inside it, both left at the first match
RECURSIVE AmountScan(_, _)
AmountScan(cols, i) ==
    IF i > Len(AmountCandidates) THEN NoneVal
    ELSE LET hits == {j \in 1..Len(cols) : AmountMatch(cols[j], AmountCandidates[i])}
         IN  IF hits # {} THEN NameVal(cols[Min(hits)]) ELSE AmountScan(cols, i + 1)

AmountColumn(cols) == AmountScan(cols, 1)

\* lines 105-110
DateColumn(cols) ==
    LET hits == {j \in 1..Len(cols) :
                    Contains(Lower(cols[j]), DateWord) \/ Lower(cols[j]) \in DateNames}
    IN  IF hits = {} THEN NoneVal ELSE NameVal(cols[Min(hits)])

\* The engine rejects SUM(<name>) when the unquoted name is not one identifier.
IsIdentifier(name) == ~Contains(name, <<SP>>)

\* get_aggregates_for_summary on a store that holds the table.  sum_ok and
\* trend_ok are the engine's answers to the two derived queries.
AggregateBundle(df, sum_ok, trend_ok) ==
    LET amount_col == AmountColumn(df.cols)
        date_col == DateColumn(df.cols)
        b1 == Put(EmptyDict, "amount_column", amount_col)
        b2 == IF amount_col.k = "name"
              THEN Put(b1, "total_sales",
                       IF sum_ok /\ IsIdentifier(amount_col.v) THEN StrVal("sum") ELSE NoneVal)
              ELSE b1
        b3 == Put(b2, "date_column", date_col)
        b4 == IF date_col.k = "name" /\ amount_col.k = "name"
              THEN Put(b3, "monthly_trend",
                       IF trend_ok /\ IsIdentifier(amount_col.v) /\ IsIdentifier(date_col.v)
                       THEN ListVal(<<"months">>) ELSE ListVal(<<>>))
              ELSE b3
    IN  DictVal(b4)

\* basic_profile: each field falls back when the engine has no such table
basic_profile(tabs) ==
    DictVal(Put(Put(EmptyDict, "row_count",
                    IF table_name \in DOMAIN tabs
                    THEN IntVal(Len(tabs[table_name].rows)) ELSE NoneVal),
                "columns",
                IF table_name \in DOMAIN tabs
                THEN ListVal(tabs[table_name].cols) ELSE ListVal(<<>>)))

(***************************************************************************)
(* json.loads on a reply's units.                                          *)
(***************************************************************************)
StringLits == {"sql", "reasoning", "confidence", "is_valid", "critique",
               "user_facing_answer", "r", "c", "a", "hello",
               "SELECT * FROM sales", "SELECT nope FROM sales",
               "SELECT * FROM sales LIMIT 0"}
NumLits == {"0.9", "0.2", "7"}

NumVal(lit) == [k |-> "num", v |-> lit]

ParseFail == [ok |-> FALSE, pos |-> 0, val |-> NoneVal]
Parsed(pos, val) == [ok |-> TRUE, pos |-> pos, val |-> val]

\* the first position from i on that holds no whitespace
SkipWs(s, i) ==
    LET rest == {j \in i..Len(s) : s[j] \notin Whitespace}
    IN  IF rest = {} THEN Len(s) + 1 ELSE Min(rest)

RECURSIVE ParseValue(_, _), ParseMembers(_, _, _), ParseElems(_, _, _)

ParseValue(s, i) ==
    LET j == SkipWs(s, i)
    IN  IF j > Len(s) THEN ParseFail
        ELSE IF s[j] \in StringLits THEN Parsed(j + 1, StrVal(s[j]))
        ELSE IF s[j] \in NumLits THEN Parsed(j + 1, NumVal(s[j]))
        ELSE IF s[j] = "true" THEN Parsed(j + 1, BoolVal(TRUE))
        ELSE IF s[j] = "false" THEN Parsed(j + 1, BoolVal(FALSE))
        ELSE IF s[j] = "null" THEN Parsed(j + 1, NoneVal)
        ELSE IF s[j] = "{"
        THEN LET m == SkipWs(s, j + 1)
             IN  IF m <= Len(s) /\ s[m] = "}" THEN Parsed(m + 1, DictVal(EmptyDict))
                 ELSE ParseMembers(s, m, EmptyDict)
        ELSE IF s[j] = "["
        THEN LET m == SkipWs(s, j + 1)
             IN  IF m <= Len(s) /\ s[m] = "]" THEN Parsed(m + 1, ListVal(<<>>))
                 ELSE ParseElems(s, m, <<>>)
        ELSE ParseFail

\* the members of an object from a key at position i on; a repeated key keeps
\* its last value
ParseMembers(s, i, acc) ==
    LET j == SkipWs(s, i)
    IN  IF j > Len(s) \/ s[j] \notin StringLits THEN ParseFail
        ELSE LET c == SkipWs(s, j + 1)
             IN  IF c > Len(s) \/ s[c] # ":" THEN ParseFail
                 ELSE LET r == ParseValue(s, c + 1)
                      IN  IF ~r.ok THEN ParseFail
                          ELSE LET m == SkipWs(s, r.pos)
                                   acc2 == Put(acc, s[j], r.val)
                               IN  IF m > Len(s) THEN ParseFail
                                   ELSE IF s[m] = "," THEN ParseMembers(s, m + 1, acc2)
                                   ELSE IF s[m] = "}" THEN Parsed(m + 1, DictVal(acc2))
                                   ELSE ParseFail

ParseElems(s, i, acc) ==
    LET r == ParseValue(s, i)
    IN  IF ~r.ok THEN ParseFail
        ELSE LET m == SkipWs(s, r.pos)
                 acc2 == Append(acc, r.val)
             IN  IF m > Len(s) THEN ParseFail
                 ELSE IF s[m] = "," THEN ParseElems(s, m + 1, acc2)
                 ELSE IF s[m] = "]" THEN Parsed(m + 1, ListVal(acc2))
                 ELSE ParseFail

\* json.loads(text): one value, whitespace around it allowed, nothing after it
json_loads(text) ==
    LET r == ParseValue(text, 1)
    IN  IF r.ok /\ SkipWs(text, r.pos) > Len(text)
        THEN [ok |-> TRUE, val |-> r.val]
        ELSE [ok |-> FALSE, val |-> NoneVal]

(***************************************************************************)
(* The agents (agents.py).                                                 *)
(***************************************************************************)
Fence == <<Tick, Tick, Tick>>
Fence4 == <<Tick, Tick, Tick, Tick>>

\* fence stripping that keeps the opening fence's line
L2QRawJsonKeepFirstLine(raw) ==
    IF StartsWith(Strip(raw), Fence)
    THEN RSplit1Head(LStrip(Strip(raw), {Tick}), Fence)
    ELSE raw

\* LanguageToQueryAgent.run, lines 54-66: raw_json
L2QRawJson(raw) ==
    IF StartsWith(Strip(raw), Fence)
    THEN LET stripped == LStrip(Strip(raw), {Tick})
             parts == Split1(stripped, NL)
             raw_json == IF Len(parts) = 2 THEN parts[2] ELSE parts[1]
         IN  RSplit1Head(raw_json, Fence)
    ELSE raw

SqlFallback == "SELECT * FROM sales LIMIT 0"
SqlSelectAll == "SELECT * FROM sales"
SqlBadColumn == "SELECT nope FROM sales"

\* the fallback with the reply stripped of its surrounding whitespace
L2QFallbackStripped(raw) ==
    DictVal(Put(Put(Put(EmptyDict, "sql", StrVal(SqlFallback)),
                    "reasoning", TextVal(Strip(raw))), "confidence", NumVal("0.3")))

\* LanguageToQueryAgent.run, line 71
L2QFallback(raw) ==
    DictVal(Put(Put(Put(EmptyDict, "sql", StrVal(SqlFallback)),
                    "reasoning", TextVal(raw)), "confidence", NumVal("0.3")))

\* LanguageToQueryAgent.run, lines 68-73, on the reply raw
LanguageToQueryAgent_run(raw) ==
    LET p == json_loads(L2QRawJson(raw))
    IN  IF p.ok THEN p.val ELSE L2QFallback(raw)

\* ValidationAgent.run, lines 143-152: raw_json
ValRawJson(raw) ==
    IF StartsWith(Strip(raw), Fence4) \/ StartsWith(Strip(raw), Fence)
    THEN LET stripped == LStrip(Strip(raw), {Tick})
             parts == Split1(stripped, NL)
             raw_json == IF Len(parts) = 2 THEN parts[2] ELSE parts[1]
         IN  RSplit1Head(raw_json, Fence)
    ELSE raw

LowConfidenceAnswer == "I'm not fully confident in this answer."
NoAnswerDefault == "I was not able to derive a confident answer."

\* the fallback without its answer
ValFallbackNoAnswer(raw) ==
    DictVal(Put(Put(Put(EmptyDict, "is_valid", BoolVal(FALSE)),
                    "confidence", NumVal("0.0")),
                "critique", TextVal(<<"Could not parse validation response: ">> \o raw)))

\* ValidationAgent.run, lines 157-162
ValFallback(raw) ==
    DictVal(Put(Put(Put(Put(EmptyDict, "is_valid", BoolVal(FALSE)),
                        "confidence", NumVal("0.0")),
                    "critique", TextVal(<<"Could not parse validation response: ">> \o raw)),
                "user_facing_answer", StrVal(LowConfidenceAnswer)))

\* ValidationAgent.run, lines 154-163, on the reply raw
ValidationAgent_run(raw) ==
    LET p == json_loads(ValRawJson(raw))
    IN  IF p.ok THEN p.val ELSE ValFallback(raw)

\* RetailDataStore.run_query: the engine's answer to the query text q.  The
\* engine knows the table by name and the queries below; anything else it rejects.
run_query(q, tabs) ==
    IF q.k # "str" THEN [ok |-> FALSE, error |-> "TypeError", df |-> NoDf]
    ELSE IF q.v = SqlBadColumn /\ table_name \in DOMAIN tabs
    THEN [ok |-> FALSE, error |-> "BinderException", df |-> NoDf]
    ELSE IF q.v \notin {SqlSelectAll, SqlFallback, SqlBadColumn}
    THEN [ok |-> FALSE, error |-> "ParserException", df |-> NoDf]
    ELSE IF table_name \notin DOMAIN tabs
    THEN [ok |-> FALSE, error |-> "CatalogException", df |-> NoDf]
    ELSE IF q.v = SqlSelectAll
    THEN [ok |-> TRUE, error |-> "", df |-> tabs[table_name]]
    ELSE [ok |-> TRUE, error |-> "", df |-> [cols |-> tabs[table_name].cols, rows |-> <<>>]]

PreviewRows == 20

\* DataFrame.head(n)
Head_n(rows, n) == SubSeq(rows, 1, IF Len(rows) < n THEN Len(rows) ELSE n)

\* DataExtractionAgent.run on a result the engine returned
ResultSummary(result) ==
    DictVal(Put(Put(Put(Put(EmptyDict, "row_count", IntVal(Len(result.rows))),
                        "column_count", IntVal(Len(result.cols))),
                    "columns", ListVal(result.cols)),
                "preview_rows", ListVal(Head_n(result.rows, PreviewRows))))

\* dict.get(key, default) on a value that is a dict
Get(d, key, default) == IF key \in DOMAIN d.v THEN d.v[key] ELSE default

Outcome(op, status, error, value) ==
    [op |-> op, status |-> status, error |-> error, value |-> value]

NoOutcome == Outcome("none", "none", "", NoneVal)

\* the locals of run_qa once the call is over
TurnOver ==
    /\ question' = ""
    /\ profile' = NoneVal
    /\ l2q_raw' = <<>>
    /\ l2q_raw_json' = <<>>
    /\ l2q_output' = NoneVal
    /\ sql' = NoneVal
    /\ data_output' = NoneVal
    /\ val_raw' = <<>>
    /\ val_raw_json' = <<>>
    /\ validation_output' = NoneVal
    /\ debug' = <<>>

\* RetailDataStore.load_file (the caller is idle: nothing runs concurrently)
load_file(f) ==
    /\ pc = "idle"
    /\ conn' = "open"
    /\ LET kind == Dispatch(Lower(FileNameOf(f)))
       IN  IF kind = "unsupported"
           THEN /\ ret' = Outcome("load_file", "raised", "ValueError", NoneVal)
                /\ UNCHANGED <<tables, last_load>>
           ELSE IF ~f.parses
           THEN /\ ret' = Outcome("load_file", "raised", "LoadError", NoneVal)
                /\ UNCHANGED <<tables, last_load>>
           ELSE /\ tables' = RegisterLoaded(tables, f.df)
                /\ last_load' = [ok |-> TRUE, df |-> f.df,
                                 replaced |-> last_load.ok /\ last_load.df # f.df]
                /\ ret' = Outcome("load_file", "ok", "", DfVal(f.df))
    /\ aggregates' = NoneVal
    /\ calls' = <<>>
    /\ TurnOver
    /\ UNCHANGED <<chat_history, pc, resp>>

LoadFile == \E f \in UploadedFiles : load_file(f)

\* get_aggregates_for_summary: line 83 asks the engine for the table's columns
\* outside any try, so a store without the table raises
get_aggregates_for_summary(tabs, sum_ok, trend_ok) ==
    IF table_name \notin DOMAIN tabs
    THEN [ok |-> FALSE, error |-> "CatalogException", val |-> NoneVal]
    ELSE [ok |-> TRUE, error |-> "", val |-> AggregateBundle(tabs[table_name], sum_ok, trend_ok)]

\* RetailInsightsOrchestrator.run_summarization; reply is the model's answer
run_summarization(reply, sum_ok, trend_ok) ==
    /\ pc = "idle"
    /\ conn' = "open"
    /\ LET agg == get_aggregates_for_summary(tables, sum_ok, trend_ok)
       IN  IF agg.ok
           THEN /\ aggregates' = agg.val
                /\ calls' = <<"llm">>
                /\ ret' = Outcome("run_summarization", "ok", "", TextVal(reply))
           ELSE /\ aggregates' = NoneVal
                /\ calls' = <<>>
                /\ ret' = Outcome("run_summarization", "raised", agg.error, NoneVal)
    /\ TurnOver
    /\ UNCHANGED <<tables, last_load, chat_history, pc, resp>>

(***************************************************************************)
(* The replies the model gives in a session.                               *)
(***************************************************************************)
RGood == <<"{", "sql", ":", "SELECT * FROM sales", ",", "reasoning", ":", "r", ",",
           "confidence", ":", "0.9", "}">>
RBadSql == <<"{", "sql", ":", "SELECT nope FROM sales", ",", "confidence", ":", "0.2", "}">>
RNoKeys == <<"{", "confidence", ":", "0.2", "}">>
RAnswer == <<"{", "is_valid", ":", "true", ",", "confidence", ":", "0.9", ",",
             "critique", ":", "c", ",", "user_facing_answer", ":", "a", "}">>
RFenced == Fence \o <<"json", NL>> \o RAnswer \o <<NL>> \o Fence
RFencedSameLine == Fence \o <<"json", SP>> \o RAnswer \o Fence
RProse == <<"Sorry">>
RTruncated == <<"{", "sql", ":">>
RString == <<"hello">>
RList == <<"[", "7", "]">>
RNull == <<"null">>

LLMReplies == {RGood, RBadSql, RNoKeys, RAnswer, RFenced, RFencedSameLine, RProse, RTruncated,
               RString, RList, RNull}
SummaryReplies == {RProse}
Questions == {"What are total sales?"}

Summarize == \E sum_ok \in BOOLEAN, trend_ok \in BOOLEAN, reply \in SummaryReplies :
                run_summarization(reply, sum_ok, trend_ok)

(***************************************************************************)
(* A Q&A turn (orchestration.py run_qa, app.py main).                      *)
(***************************************************************************)
\* a step record put in front of the trace
AppendStepFirst(steps, agent, output) == <<[agent |-> agent, output |-> output]>> \o steps

\* debug["steps"].append({"agent": ..., "output": ...})
AppendStep(steps, agent, output) == Append(steps, [agent |-> agent, output |-> output])

\* the Execution Agent answering an engine failure with an empty summary
DataExtractionAgent_run_swallow(q, tabs) ==
    LET r == run_query(q, tabs)
    IN  [ok |-> TRUE, error |-> "", out |-> ResultSummary(r.df)]

\* DataExtractionAgent.run: the summary, or the engine's error as raised
DataExtractionAgent_run(q, tabs) ==
    LET r == run_query(q, tabs)
    IN  IF r.ok THEN [ok |-> TRUE, error |-> "", out |-> ResultSummary(r.df)]
        ELSE [ok |-> FALSE, error |-> r.error, out |-> NoneVal]

\* run_qa raises: no value comes back and its locals are gone
Raise(error) ==
    /\ ret' = Outcome("run_qa", "raised", error, NoneVal)
    /\ pc' = "idle"
    /\ TurnOver

\* app.py line 64 calls run_qa; run_qa lines 60-62
StartQA(q) ==
    /\ pc = "idle"
    /\ Len(chat_history) < 2 * MaxTurns
    /\ pc' = "generate"
    /\ conn' = "open"
    /\ question' = q
    /\ profile' = basic_profile(tables)
    /\ debug' = <<>>
    /\ calls' = <<>>
    /\ aggregates' = NoneVal
    /\ ret' = NoOutcome
    /\ UNCHANGED <<tables, last_load, chat_history, l2q_raw, l2q_raw_json, l2q_output,
                   sql, data_output, val_raw, val_raw_json, validation_output, resp>>

\* run_qa lines 64-68: the Query-Generation Agent, its trace record, the read of sql
Generate(reply) ==
    /\ pc = "generate"
    /\ calls' = Append(calls, "llm")
    /\ LET out == LanguageToQueryAgent_run(reply)
       IN  IF out.k = "dict"
           THEN /\ l2q_raw' = reply
                /\ l2q_raw_json' = L2QRawJson(reply)
                /\ l2q_output' = out
                /\ debug' = AppendStep(debug, "language_to_query", out)
                /\ sql' = Get(out, "sql", StrVal(SqlFallback))
                /\ pc' = "execute"
                /\ UNCHANGED <<question, profile, data_output, val_raw, val_raw_json,
                               validation_output, ret>>
           ELSE Raise("AttributeError")
    /\ UNCHANGED <<conn, tables, last_load, chat_history, aggregates, resp>>

\* run_qa lines 70-72: the Execution Agent and its trace record
Execute ==
    /\ pc = "execute"
    /\ calls' = Append(calls, "engine")
    /\ LET r == DataExtractionAgent_run(sql, tables)
       IN  IF r.ok
           THEN /\ data_output' = r.out
                /\ debug' = AppendStep(debug, "data_extraction", r.out)
                /\ pc' = "validate"
                /\ UNCHANGED <<question, profile, l2q_raw, l2q_raw_json, l2q_output, sql,
                               val_raw, val_raw_json, validation_output, ret>>
           ELSE Raise(r.error)
    /\ UNCHANGED <<conn, tables, last_load, chat_history, aggregates, resp>>

\* run_qa lines 74-80: the Validation Agent, its trace record, the read of the
\* answer, the return of (answer, debug)
Validate(reply) ==
    /\ pc = "validate"
    /\ calls' = Append(calls, "llm")
    /\ LET out == ValidationAgent_run(reply)
       IN  IF out.k = "dict"
           THEN /\ val_raw' = reply
                /\ val_raw_json' = ValRawJson(reply)
                /\ validation_output' = out
                /\ debug' = AppendStep(debug, "validation", out)
                /\ ret' = Outcome("run_qa", "ok", "",
                                  [k |-> "pair",
                                   v |-> [answer |-> Get(out, "user_facing_answer",
                                                         StrVal(NoAnswerDefault)),
                                          debug |-> debug']])
                /\ pc' = "returned"
                /\ UNCHANGED <<question, profile, l2q_raw, l2q_raw_json, l2q_output, sql,
                               data_output>>
           ELSE Raise("AttributeError")
    /\ UNCHANGED <<conn, tables, last_load, chat_history, aggregates, resp>>

\* app.py lines 66-67: the turn's question and answer join the chat history
AppendHistory ==
    /\ pc = "returned"
    /\ chat_history' = chat_history \o
            <<[role |-> "user", content |-> StrVal(question)],
              [role |-> "assistant", content |-> ret.value.v.answer]>>
    /\ pc' = "idle"
    /\ ret' = NoOutcome
    /\ TurnOver
    /\ UNCHANGED <<conn, tables, last_load, calls, aggregates, resp>>

AskQuestion == \E q \in Questions : StartQA(q)
GenerateStep == \E reply \in LLMReplies : Generate(reply)
ValidateStep == \E reply \in LLMReplies : Validate(reply)

Init ==
    /\ conn = "none"
    /\ tables = NoTables
    /\ last_load = NeverLoaded
    /\ chat_history = <<>>
    /\ pc = "idle"
    /\ question = ""
    /\ profile = NoneVal
    /\ l2q_raw = <<>>
    /\ l2q_raw_json = <<>>
    /\ l2q_output = NoneVal
    /\ sql = NoneVal
    /\ data_output = NoneVal
    /\ val_raw = <<>>
    /\ val_raw_json = <<>>
    /\ validation_output = NoneVal
    /\ debug = <<>>
    /\ calls = <<>>
    /\ aggregates = NoneVal
    /\ ret = NoOutcome
    /\ resp = <<>>

Next ==
    \/ LoadFile
    \/ Summarize
    \/ AskQuestion
    \/ GenerateStep
    \/ Execute
    \/ ValidateStep
    \/ AppendHistory

Spec == Init /\ [][Next]_vars

(***************************************************************************)
(* Column detection over every table the store can hold: the store starts  *)
(* with a table of up to MaxCols distinct columns and is summarized.       *)
(***************************************************************************)
ColumnPool == {Region, OrderDate, TotalSales, Total, Sales, AMOUNT, Updated, Qty}

Range(s) == {s[i] : i \in 1..Len(s)}

\* the sequences of at most n distinct members of pool
RECURSIVE DistinctSeqs(_, _)
DistinctSeqs(pool, n) ==
    IF n = 0 THEN {<<>>}
    ELSE LET shorter == DistinctSeqs(pool, n - 1)
         IN  shorter \cup UNION {{Append(p, c) : c \in pool \ Range(p)} : p \in shorter}

ColumnLists == DistinctSeqs(ColumnPool, MaxCols)

InitColumns ==
    /\ conn = "open"
    /\ \E cols \in ColumnLists :
          /\ tables = Register(NoTables, table_name, [cols |-> cols, rows |-> <<1>>])
          /\ last_load = [ok |-> TRUE, df |-> [cols |-> cols, rows |-> <<1>>], replaced |-> FALSE]
    /\ chat_history = <<>>
    /\ pc = "idle"
    /\ question = ""
    /\ profile = NoneVal
    /\ l2q_raw = <<>>
    /\ l2q_raw_json = <<>>
    /\ l2q_output = NoneVal
    /\ sql = NoneVal
    /\ data_output = NoneVal
    /\ val_raw = <<>>
    /\ val_raw_json = <<>>
    /\ validation_output = NoneVal
    /\ debug = <<>>
    /\ calls = <<>>
    /\ aggregates = NoneVal
    /\ ret = NoOutcome
    /\ resp = <<>>

NextColumns == Summarize

SpecColumns == InitColumns /\ [][NextColumns]_vars

(***************************************************************************)
(* Reply decoding over every reply of up to MaxChunks pieces: the reply    *)
(* resp is handed to the Query-Generation Agent, then to the Validation    *)
(* Agent.                                                                  *)
(***************************************************************************)
ChObject == RGood
ChPretty == <<"{", NL, SP, "is_valid", ":", SP, "true", ",", NL, SP,
              "user_facing_answer", ":", SP, "a", NL, "}">>
ChString == <<"hello">>
ChTag == <<"json">>

Chunks == {Fence, <<NL>>, <<SP>>, ChTag, ChObject, ChPretty, ChString}

RECURSIVE ChunkTexts(_)
ChunkTexts(n) ==
    IF n = 0 THEN {<<>>}
    ELSE LET shorter == ChunkTexts(n - 1)
         IN  shorter \cup {p \o c : p \in shorter, c \in Chunks}

Replies == ChunkTexts(MaxChunks)

InitDecode ==
    /\ conn = "none"
    /\ tables = NoTables
    /\ last_load = NeverLoaded
    /\ chat_history = <<>>
    /\ pc = "decode"
    /\ question = ""
    /\ profile = NoneVal
    /\ l2q_raw = <<>>
    /\ l2q_raw_json = <<>>
    /\ l2q_output = NoneVal
    /\ sql = NoneVal
    /\ data_output = NoneVal
    /\ val_raw = <<>>
    /\ val_raw_json = <<>>
    /\ validation_output = NoneVal
    /\ debug = <<>>
    /\ calls = <<>>
    /\ aggregates = NoneVal
    /\ ret = NoOutcome
    /\ resp \in Replies

\* LanguageToQueryAgent.run from the reply on (lines 50-73)
DecodeL2Q ==
    /\ pc = "decode"
    /\ l2q_raw' = resp
    /\ l2q_raw_json' = L2QRawJson(resp)
    /\ l2q_output' = LanguageToQueryAgent_run(resp)
    /\ pc' = "decode_val"
    /\ UNCHANGED <<conn, tables, last_load, chat_history, question, profile, sql,
                   data_output, val_raw, val_raw_json, validation_output, debug, calls,
                   aggregates, ret, resp>>

\* ValidationAgent.run from the reply on (lines 140-163)
DecodeVal ==
    /\ pc = "decode_val"
    /\ val_raw' = resp
    /\ val_raw_json' = ValRawJson(resp)
    /\ validation_output' = ValidationAgent_run(resp)
    /\ pc' = "decoded"
    /\ UNCHANGED <<conn, tables, last_load, chat_history, question, profile, sql,
                   data_output, l2q_raw, l2q_raw_json, l2q_output, debug, calls,
                   aggregates, ret, resp>>

NextDecode == DecodeL2Q \/ DecodeVal

SpecDecode == InitDecode /\ [][NextDecode]_vars

(***************************************************************************)
(* Properties.                                                             *)
(***************************************************************************)
\* the text after a name's last dot, lower-cased; empty when it has no dot
Extension(name) ==
    LET dots == {i \in 1..Len(name) : name[i] = "."}
    IN  IF dots = {} THEN <<>> ELSE Lower(SubSeq(name, Max(dots) + 1, Len(name)))

ExtCsv == <<"c", "s", "v">>
ExtXlsx == <<"x", "l", "s", "x">>
ExtXls == <<"x", "l", "s">>
ExtJson == <<"j", "s", "o", "n">>

\* the uploaded files whose extension is none of exts
FilesWithExtensionOutside(exts) ==
    {f \in UploadedFiles : Extension(FileNameOf(f)) \notin exts}

\* the step is load_file(f), it raises the unsupported-format error and the
\* tables are what they were
RejectedUntouched ==
    /\ ret'.op = "load_file"
    /\ ret'.status = "raised"
    /\ ret'.error = "ValueError"
    /\ tables' = tables
    /\ last_load' = last_load

C2_SingleTableLastLoad ==
    /\ DOMAIN tables \subseteq {table_name}
    /\ last_load.ok =>
          /\ DOMAIN tables = {table_name}
          /\ tables[table_name] = last_load.df
          /\ run_query(StrVal(SqlSelectAll), tables).ok
          /\ run_query(StrVal(SqlSelectAll), tables).df.rows = last_load.df.rows
    /\ ~last_load.ok => tables = NoTables

\* C2 witness: a successful load has replaced a table that held other rows.
C2_Witness ==
    /\ last_load.ok
    /\ last_load.replaced
    /\ ret.op = "load_file"
    /\ ret.status = "ok"
    /\ tables[table_name] = DfB

\* the fallback of the Query-Generation Agent for the reply raw, field by field
IsL2QFallbackFor(out, raw) ==
    /\ out.k = "dict"
    /\ DOMAIN out.v = {"sql", "reasoning", "confidence"}
    /\ out.v["sql"] = StrVal("SELECT * FROM sales LIMIT 0")
    /\ out.v["confidence"] = NumVal("0.3")
    /\ out.v["reasoning"] = TextVal(raw)

HasNoTick(s) == \A i \in 1..Len(s) : s[i] # Tick

\* C3: whenever the text the Query-Generation Agent decodes (the reply, or what
\* fence stripping leaves of it) is malformed JSON, run returns the zero-row
\* query, confidence 0.3 and the reply exactly as received as reasoning.
C3_MalformedGivesFallback ==
    pc \in {"decode_val", "decoded"} =>
        /\ ~json_loads(l2q_raw_json).ok => IsL2QFallbackFor(l2q_output, resp)
        /\ (HasNoTick(resp) /\ ~json_loads(resp).ok) => IsL2QFallbackFor(l2q_output, resp)

\* C3 witness: a fenced reply with leading whitespace was malformed and came
\* back whole as the reasoning.
C3_Witness ==
    /\ pc = "decoded"
    /\ Len(resp) > 4
    /\ resp[1] \in Whitespace
    /\ SubSeq(resp, 2, 4) = Fence
    /\ ~json_loads(l2q_raw_json).ok
    /\ IsL2QFallbackFor(l2q_output, resp)

\* the fallback of the Validation Agent
IsValFallback(out) ==
    /\ out.k = "dict"
    /\ "is_valid" \in DOMAIN out.v
    /\ out.v["is_valid"] = BoolVal(FALSE)
    /\ "confidence" \in DOMAIN out.v
    /\ out.v["confidence"] = NumVal("0.0")
    /\ "user_facing_answer" \in DOMAIN out.v
    /\ out.v["user_facing_answer"] = StrVal("I'm not fully confident in this answer.")

\* C4: whenever the Validation Agent's reply is malformed JSON the turn does
\* not fail: run yields is_valid false, confidence 0.0 and the fixed
\* low-confidence string, and run_qa returns that string as the answer.
C4_ValidationFallbackAnswers ==
    [][\A reply \in LLMReplies :
          (Validate(reply) /\ ~json_loads(ValRawJson(reply)).ok) =>
              /\ pc' = "returned"
              /\ IsValFallback(validation_output')
              /\ ret'.op = "run_qa"
              /\ ret'.status = "ok"
              /\ ret'.value.v.answer = StrVal("I'm not fully confident in this answer.")]_vars

\* C4 witness: a turn has returned on a truncated validation reply.
C4_Witness ==
    /\ pc = "returned"
    /\ val_raw = RTruncated
    /\ ret.status = "ok"
    /\ ret.value.v.answer = StrVal(LowConfidenceAnswer)

\* C5 as stated: whatever the model replies, run_qa never fails at the read of
\* sql or of user_facing_answer.
C5_ReplyShapeNeverFatal ==
    ~(ret.op = "run_qa" /\ ret.status = "raised" /\ ret.error = "AttributeError")

\* C6: when the engine fails on the generated query, run_qa raises the engine's
\* error as it is, the Validation Agent is never invoked, no answer or trace
\* comes back and the chat history is what it was.
C6_EngineFailureIsFatal ==
    [][(pc = "execute" /\ ~run_query(sql, tables).ok) =>
          /\ pc' = "idle"
          /\ ret' = Outcome("run_qa", "raised", run_query(sql, tables).error, NoneVal)
          /\ calls' = <<"llm", "engine">>
          /\ validation_output' = NoneVal
          /\ debug' = <<>>
          /\ chat_history' = chat_history]_vars

\* C6 witness: the second turn of a session has died on a nonexistent column.
C6_Witness ==
    /\ pc = "idle"
    /\ ret.op = "run_qa"
    /\ ret.error = "BinderException"
    /\ calls = <<"llm", "engine">>
    /\ Len(chat_history) = 2

\* C7 as stated: run_summarization never fails because of the profile or the
\* aggregates, in any state of the store.
C7_AggregatesNeverFatal ==
    ~(ret.op = "run_summarization" /\ ret.status = "raised")

ContainsWord(name, word) == Contains(Lower(name), word)

\* C8: the amount column is the first column, in table order, that contains
\* the earliest candidate any column contains, and null when none matches; the
\* date column is the first column that contains `date`, else null; the columns
\* Region, Order Date, Total Sales give Total Sales and Order Date.
C8_ColumnDetection ==
    aggregates.k = "dict" =>
        LET cols == tables[table_name].cols
            a == aggregates.v["amount_column"]
            d == aggregates.v["date_column"]
            cands == AmountCandidates
            any == \E i \in 1..Len(cands), j \in 1..Len(cols) : ContainsWord(cols[j], cands[i])
        IN  /\ ~any => a = NoneVal
            /\ any =>
                  /\ a.k = "name"
                  /\ \E i \in 1..Len(cands), j \in 1..Len(cols) :
                        /\ a.v = cols[j]
                        /\ ContainsWord(cols[j], cands[i])
                        /\ \A j2 \in 1..(j - 1) : ~ContainsWord(cols[j2], cands[i])
                        /\ \A i2 \in 1..(i - 1), j2 \in 1..Len(cols) :
                              ~ContainsWord(cols[j2], cands[i2])
            /\ (\A j \in 1..Len(cols) : ~ContainsWord(cols[j], DateWord)) => d = NoneVal
            /\ \A j \in 1..Len(cols) :
                  (ContainsWord(cols[j], DateWord)
                   /\ \A j2 \in 1..(j - 1) : ~ContainsWord(cols[j2], DateWord))
                      => d = NameVal(cols[j])
            /\ cols = <<Region, OrderDate, TotalSales>>
                  => (a = NameVal(TotalSales) /\ d = NameVal(OrderDate))

\* C8 witness: the table Region, Order Date, Total Sales has been summarized.
C8_Witness ==
    /\ aggregates.k = "dict"
    /\ tables[table_name].cols = <<Region, OrderDate, TotalSales>>
    /\ aggregates.v["amount_column"] = NameVal(TotalSales)
    /\ aggregates.v["date_column"] = NameVal(OrderDate)

\* C9: a turn that has returned made exactly the calls model, engine, model in
\* that order, and its trace holds exactly the three records
\* language_to_query, data_extraction, validation, each with that stage's
\* output as the stage produced it, whatever the outputs say.
C9_LinearTurn ==
    pc = "returned" =>
        /\ ret.op = "run_qa" /\ ret.status = "ok"
        /\ calls = <<"llm", "engine", "llm">>
        /\ ret.value.v.debug = debug
        /\ Len(debug) = 3
        /\ debug[1] = [agent |-> "language_to_query", output |-> l2q_output]
        /\ debug[2] = [agent |-> "data_extraction", output |-> data_output]
        /\ debug[3] = [agent |-> "validation", output |-> validation_output]
        /\ l2q_output = LanguageToQueryAgent_run(l2q_raw)
        /\ run_query(sql, tables).ok
        /\ data_output = ResultSummary(run_query(sql, tables).df)
        /\ validation_output = ValidationAgent_run(val_raw)

\* C9 witness: a later turn of a session has returned although generation fell
\* back (confidence 0.3) and validation said is_valid false.
C9_Witness ==
    /\ pc = "returned"
    /\ Len(chat_history) >= 2
    /\ Len(debug) = 3
    /\ IsL2QFallbackFor(l2q_output, l2q_raw)
    /\ IsValFallback(validation_output)

Pads == {<<>>, <<SP>>, <<NL>>}
Spaces == {<<>>, <<SP>>}
Tags == {<<>>, ChTag}

\* J in triple backticks, with or without a tag, the fences on J's line or not
Wrapped(J) ==
    {lead \o Fence \o tag \o pad1 \o J \o pad2 \o Fence \o trail :
        lead \in Pads, tag \in Tags, pad1 \in Pads, pad2 \in Pads, trail \in Pads}

\* J in triple backticks, a newline ending the opening fence's line
WrappedOnOwnLines(J) ==
    {lead \o Fence \o tag \o sp \o <<NL>> \o pad1 \o J \o pad2 \o Fence \o trail :
        lead \in Pads, tag \in Tags, sp \in Spaces, pad1 \in Pads, pad2 \in Pads,
        trail \in Pads}

\* J on one line between the fences, no tag, no newline before the closing fence
WrappedOnOneLine(J) ==
    {lead \o Fence \o sp1 \o J \o sp2 \o Fence \o trail :
        lead \in Pads, sp1 \in Spaces, sp2 \in Spaces, trail \in Pads}

\* the wrapped forms of the two objects (each set is built once)
WrappedObject == Wrapped(ChObject)
WrappedPretty == Wrapped(ChPretty)
OwnLinesObject == WrappedOnOwnLines(ChObject)
OwnLinesPretty == WrappedOnOwnLines(ChPretty)
OneLineObject == WrappedOnOneLine(ChObject)

DecodesAs(J) ==
    /\ json_loads(J).ok
    /\ l2q_output = json_loads(J).val
    /\ l2q_output = LanguageToQueryAgent_run(J)
    /\ validation_output = json_loads(J).val
    /\ validation_output = ValidationAgent_run(J)

\* C10 as stated: a reply that wraps a JSON object J in triple backticks, with
\* or without a tag, on J's line or not, decodes in both agents to what J
\* decodes to; and both agents strip alike.
C10_Original ==
    pc = "decoded" =>
        /\ l2q_raw_json = val_raw_json
        /\ resp \in WrappedObject => DecodesAs(ChObject)
        /\ resp \in WrappedPretty => DecodesAs(ChPretty)

\* C10 amended: a reply that wraps a JSON object J in triple backticks decodes
\* in both agents to what J decodes to when a newline ends the opening fence's
\* line (the fence, an optional tag, then the newline), or when there is no tag
\* and fence, one-line J and fence share one line; and both agents strip alike.
C10_FenceTransparentOnOwnLines ==
    pc = "decoded" =>
        /\ l2q_raw_json = val_raw_json
        /\ resp \in OwnLinesObject => DecodesAs(ChObject)
        /\ resp \in OwnLinesPretty => DecodesAs(ChPretty)
        /\ resp \in OneLineObject => DecodesAs(ChObject)

\* C10 witness: a tagged fence on its own line around a one-line object.
C10_Witness ==
    /\ pc = "decoded"
    /\ resp = Fence \o ChTag \o <<NL>> \o ChObject \o Fence
    /\ DecodesAs(ChObject)

====
